---- MODULE Spec2Model ----
(***************************************************************************)
(* A model of scraper.py: the batch routine run, the site crawler          *)
(* scrape_emails and the page fetcher get_emails_from_url.                 *)
(*                                                                         *)
(* Strings are sequences of tokens.  A URL token is a run of characters    *)
(* that no string operation of the program splits ("http:", "firm.org");   *)
(* the characters the operations look at ("/", " ", "[") are tokens of     *)
(* their own.  An e-mail address and a cell of the output column are       *)
(* sequences of single characters.                                         *)
(***************************************************************************)
EXTENDS Integers, Sequences, FiniteSets, TLC

VARIABLES
    pc,           \* the position of the program
    columns,      \* df.columns
    website_col,  \* the configured column name
    records,      \* the cells of the rows of df, in order
    row,          \* the number of rows the loop of run has finished
    website,      \* scrape_emails: the parameter, then the normalised string
    base,         \* scrape_emails: base
    sub,          \* scrape_emails: the index into COMMON_SUBPAGES
    found,        \* scrape_emails: the accumulator
    lastFetch,    \* the last call of get_emails_from_url and what it returned
    inflight,     \* the GET requests issued and not yet answered
    gets,         \* the targets of the GETs of the current crawl, in order
    delays,       \* the sleeps of the current crawl
    emails,       \* run: the set the last call of scrape_emails returned
    scraped,      \* run: the list scraped
    crawled,      \* per row, the union of what the fetcher returned for it
    error,        \* the exception that ended run, if any
    output,       \* the scraped_emails column of the written file, if written
    networkUsed,  \* whether any GET was issued
    site,         \* order check: the result set of every subpage
    visited       \* order check: the subpages visited so far

vars == <<pc, columns, website_col, records, row, website, base, sub, found,
          lastFetch, inflight, gets, delays, emails, scraped, crawled, error, output,
          networkUsed, site, visited>>

(***************************************************************************)
(* Configuration                                                           *)
(***************************************************************************)
COMMON_SUBPAGES ==
    <<"", "contact", "about", "team", "support", "contact-us", "about-us",
      "our-team", "staff">>

NSub == Len(COMMON_SUBPAGES)

\* The most rows of an input file.
MaxRecords == 2

(***************************************************************************)
(* Characters and e-mail addresses                                         *)
(***************************************************************************)
\* The code points of the characters used, as sorted() compares them.
Ord(c) ==
    CASE c = " " -> 32
      [] c = "," -> 44
      [] c = "." -> 46
      [] c = "@" -> 64
      [] c = "B" -> 66
      [] c = "a" -> 97
      [] c = "c" -> 99
      [] c = "x" -> 120

LocalChars == {"a", "B", "c", "x", "."}
DomainChars == {"a", "B", "c", "x"}

AllIn(s, from, to, S) == \A k \in from..to : s[k] \in S

\* EMAIL_REGEX matched against a whole word:
\* [a-zA-Z0-9_.+-]+ @ [a-zA-Z0-9-]+ \. [a-zA-Z0-9-.]+
MatchesEmail(w) ==
    \E at \in 2..Len(w), dot \in 3..Len(w) :
        /\ w[at] = "@"
        /\ w[dot] = "."
        /\ at + 1 < dot
        /\ dot < Len(w)
        /\ AllIn(w, 1, at - 1, LocalChars)
        /\ AllIn(w, at + 1, dot - 1, DomainChars)
        /\ AllIn(w, dot + 1, Len(w), DomainChars \cup {"."})

AddrA == <<"a", "@", "x", ".", "c">>
AddrB == <<"B", "@", "x", ".", "c">>
AddrAc == <<"a", "@", "x", ".", "c", "c">>

\* A response body: a sequence of nodes, each a tag or a word of text.
Tag(name) == [tag |-> TRUE, text |-> <<name>>]
Word(w) == [tag |-> FALSE, text |-> w]

BodyPlain == <<Tag("p"), Word(<<"a", "x">>), Tag("/p")>>
BodyTwo == <<Tag("p"), Word(AddrA), Word(AddrB), Tag("/p"), Word(AddrA)>>
BodyOne == <<Word(<<"c", ".", "c">>), Word(AddrAc)>>
Bodies == {BodyPlain, BodyTwo, BodyOne}

\* BeautifulSoup(...).get_text(): the words of the body, the tags dropped.
RECURSIVE GetText(_)
GetText(body) ==
    IF body = <<>> THEN <<>>
    ELSE IF body[1].tag THEN GetText(Tail(body))
    ELSE <<body[1].text>> \o GetText(Tail(body))

\* set(re.findall(EMAIL_REGEX, text))
FindAll(text) == {text[k] : k \in {j \in 1..Len(text) : MatchesEmail(text[j])}}

(***************************************************************************)
(* get_emails_from_url                                                     *)
(***************************************************************************)
\* requests.exceptions: every class and the class it derives from.
ParentClass ==
    [RequestException |-> "IOError",
     ConnectionError  |-> "RequestException",
     Timeout          |-> "RequestException",
     InvalidURL       |-> "RequestException",
     SSLError         |-> "ConnectionError",
     ReadTimeout      |-> "Timeout"]

RECURSIVE IsSubclass(_, _)
IsSubclass(cls, of) ==
    \/ cls = of
    \/ /\ cls \in DOMAIN ParentClass
       /\ IsSubclass(ParentClass[cls], of)

\* What requests.get does: it raises, or it returns a response.
Raises(exc) == [kind |-> "exception", exc |-> exc, status |-> 0, body |-> <<>>]
Response(status, body) ==
    [kind |-> "response", exc |-> "none", status |-> status, body |-> body]

\* DNS failure and refused connection, timeout, TLS failure, bad URL.
NetworkErrors == {"ConnectionError", "ReadTimeout", "SSLError", "InvalidURL"}
Statuses == {200, 301, 404, 500}
Outcomes ==
    {Raises(e) : e \in NetworkErrors}
        \cup {Response(s, b) : s \in Statuses, b \in Bodies}

\* except requests.RequestException
CatchesOnlyTimeout(exc) == IsSubclass(exc, "Timeout")
Catches(exc) == IsSubclass(exc, "RequestException")

\* if resp.status_code != 200: return set()
RejectsOnlyClientErrors(status) == status >= 400
StatusRejected(status) == status # 200

FetchResult(url, o, raised, parsed, result) ==
    [url |-> url, outcome |-> o, raised |-> raised, parsed |-> parsed,
     result |-> result]

\* The call get_emails_from_url(url) when requests.get does o.
get_emails_from_url(url, o) ==
    IF o.kind = "exception"
    THEN IF Catches(o.exc)
         THEN FetchResult(url, o, FALSE, FALSE, {})
         ELSE FetchResult(url, o, TRUE, FALSE, {})
    ELSE IF StatusRejected(o.status)
         THEN FetchResult(url, o, FALSE, FALSE, {})
         ELSE FetchResult(url, o, FALSE, TRUE, FindAll(GetText(o.body)))

\* No call of the fetcher has returned since the last sleep.
NoFetch ==
    FetchResult(<<>>, [kind |-> "none", exc |-> "none", status |-> 0,
                       body |-> <<>>], FALSE, FALSE, {})

(***************************************************************************)
(* scrape_emails: validation and normalisation                             *)
(***************************************************************************)
\* A cell of the website column: a string, or a value of another type
\* (pandas reads an empty cell as the float NaN).
Str(s) == [isStr |-> TRUE, s |-> s]
NaN == [isStr |-> FALSE, s |-> <<>>]

Whitespace == {" "}

RECURSIVE LStrip(_)
LStrip(s) ==
    IF s # <<>> /\ s[1] \in Whitespace THEN LStrip(Tail(s)) ELSE s

RECURSIVE RStrip(_)
RStrip(s) ==
    IF s # <<>> /\ s[Len(s)] \in Whitespace
    THEN RStrip(SubSeq(s, 1, Len(s) - 1))
    ELSE s

\* str.strip()
Strip(s) == RStrip(LStrip(s))

\* not (not isinstance(website, str) or not website.strip())
UsableNoStrip(w) == w.isStr /\ w.s # <<>>
Usable(w) == w.isStr /\ Strip(w.s) # <<>>

Slashes == <<"/", "/">>

\* website.startswith(("http://", "https://"))
HasScheme(s) ==
    /\ Len(s) >= 3
    /\ s[1] \in {"http:", "https:"}
    /\ SubSeq(s, 2, 3) = Slashes

\* if not website.startswith(...): website = "http://" + website.strip()
NormalizeNoStrip(s) == IF HasScheme(s) THEN s ELSE <<"http:">> \o Slashes \o s
Normalize(s) ==
    IF HasScheme(s) THEN s ELSE <<"http:">> \o Slashes \o Strip(s)

\* urlparse(website).netloc of a string that starts with http:// or
\* https://: what follows the two slashes, up to the first "/", "?" or "#".
NetlocEnd == {"/", "?", "#"}

RECURSIVE UpTo(_, _)
UpTo(s, stops) ==
    IF s = <<>> \/ s[1] \in stops THEN <<>>
    ELSE <<s[1]>> \o UpTo(Tail(s), stops)

Netloc(s) == UpTo(SubSeq(s, 4, Len(s)), NetlocEnd)

Has(s, c) == \E k \in 1..Len(s) : s[k] = c

\* urlparse raises ValueError("Invalid IPv6 URL") when the netloc holds one
\* of "[" and "]" without the other.
UrlParseRaises(s) == Has(Netloc(s), "[") # Has(Netloc(s), "]")

\* base = f"{parsed.scheme}://{parsed.netloc}"
Base(s) == <<s[1]>> \o Slashes \o Netloc(s)

\* The index of the last "/" of s, 0 when there is none.
RECURSIVE LastSlash(_)
LastSlash(s) ==
    IF s = <<>> THEN 0
    ELSE IF s[Len(s)] = "/" THEN Len(s)
    ELSE LastSlash(SubSeq(s, 1, Len(s) - 1))

\* urljoin(b, ref) for a relative path ref: ref replaces what follows the
\* last "/" of b.
UrlJoin(b, ref) == SubSeq(b, 1, LastSlash(b)) \o <<ref>>

\* target = urljoin(base + "/", sub) if sub else base
Target(b, subpage) ==
    IF subpage # "" THEN UrlJoin(b \o <<"/">>, subpage) ELSE b

\* The targets one call scrape_emails(w) fetches, in order.
CrawlTargets(w) ==
    IF ~Usable(w) \/ UrlParseRaises(Normalize(w.s)) THEN <<>>
    ELSE [k \in 1..NSub |-> Target(Base(Normalize(w.s)), COMMON_SUBPAGES[k])]

\* found: set[str] = set()
SharedFound(old) == old
NewFound(old) == {}

\* found.update(result)
Overwrite(acc, result) == result
Update(acc, result) == acc \cup result

\* The loop of scrape_emails over the results of the subpages, in order.
RECURSIVE Crawl(_, _, _)
Crawl(results, k, acc) ==
    IF k > NSub THEN acc ELSE Crawl(results, k + 1, Update(acc, results[k]))

ScrapeResult(results) == Crawl(results, 1, NewFound({}))

(***************************************************************************)
(* run: the output value of a record                                       *)
(***************************************************************************)
RECURSIVE LexLess(_, _)
LexLess(a, b) ==
    IF a = <<>> THEN b # <<>>
    ELSE IF b = <<>> THEN FALSE
    ELSE IF a[1] = b[1] THEN LexLess(Tail(a), Tail(b))
    ELSE Ord(a[1]) < Ord(b[1])

\* The order of a sort that ignores case, as sorted(emails, key=str.lower).
Lower(c) == IF c = "B" THEN "b" ELSE c
OrdLower(c) == IF c = "B" THEN 98 ELSE Ord(c)

RECURSIVE LexLessLower(_, _)
LexLessLower(a, b) ==
    IF a = <<>> THEN b # <<>>
    ELSE IF b = <<>> THEN FALSE
    ELSE IF Lower(a[1]) = Lower(b[1]) THEN LexLessLower(Tail(a), Tail(b))
    ELSE OrdLower(a[1]) < OrdLower(b[1])

RECURSIVE SortedIgnoringCase(_)
SortedIgnoringCase(S) ==
    IF S = {} THEN <<>>
    ELSE LET m == CHOOSE x \in S : \A y \in S \ {x} : LexLessLower(x, y)
         IN  <<m>> \o SortedIgnoringCase(S \ {m})

\* sorted(emails)
RECURSIVE Sorted(_)
Sorted(S) ==
    IF S = {} THEN <<>>
    ELSE LET m == CHOOSE x \in S : \A y \in S \ {x} : LexLess(x, y)
         IN  <<m>> \o Sorted(S \ {m})

\* sep.join(parts)
RECURSIVE Join(_, _)
Join(sep, parts) ==
    IF parts = <<>> THEN <<>>
    ELSE IF Len(parts) = 1 THEN parts[1]
    ELSE parts[1] \o sep \o Join(sep, Tail(parts))

CommaSpace == <<",", " ">>

\* ", ".join(sorted(emails)) if emails else ""
Format(set) == IF set # {} THEN Join(CommaSpace, Sorted(set)) ELSE <<>>

(***************************************************************************)
(* run                                                                     *)
(***************************************************************************)
InputCsv == "firms.csv"

Identifiers ==
    {NaN,
     Str(<<" ">>),
     Str(<<"firm.org">>),
     Str(<<" ", "firm.org", " ">>),
     Str(<<"https:", "/", "/", "firm.org", "/", "team">>),
     Str(<<"HTTP:", "/", "/", "firm.org">>),
     Str(<<"[">>)}

RecordLists == UNION {[1..n -> Identifiers] : n \in 0..MaxRecords}

\* website_col in df.columns
ColumnNotChecked(col, cols) == TRUE
HasColumn(col, cols) == col \in cols

\* row.get(website_col, "")
Cell(k) == IF website_col \in columns THEN records[k] ELSE Str(<<>>)

NoError == [type |-> "none", msg |-> <<>>]
NotWritten == [written |-> FALSE, column |-> <<>>]
NoSite == [k \in 1..NSub |-> {}]

Init ==
    /\ pc = "run"
    /\ columns \in {{"name", "website"}, {"name"}}
    /\ website_col \in {"website", "url"}
    /\ records \in RecordLists
    /\ row = 0
    /\ website = NaN
    /\ base = <<>>
    /\ sub = 1
    /\ found = {}
    /\ lastFetch = NoFetch
    /\ inflight = 0
    /\ gets = <<>>
    /\ delays = 0
    /\ emails = {}
    /\ scraped = <<>>
    /\ crawled = <<>>
    /\ error = NoError
    /\ output = NotWritten
    /\ networkUsed = FALSE
    /\ site = NoSite
    /\ visited = {}

crawlVars == <<website, base, sub, found, lastFetch, inflight, gets, delays>>
orderVars == <<site, visited>>
inputVars == <<columns, website_col, records>>

\* if website_col not in df.columns: raise ValueError(...)
ColumnMissing ==
    /\ pc = "run"
    /\ ~HasColumn(website_col, columns)
    /\ pc' = "failed"
    /\ error' = [type |-> "ValueError",
                 msg |-> <<"Column '", website_col, "' not found in ",
                           InputCsv>>]
    /\ UNCHANGED <<inputVars, row, crawlVars, emails, scraped, crawled,
                   output, networkUsed, orderVars>>

\* scraped = []
ColumnPresent ==
    /\ pc = "run"
    /\ HasColumn(website_col, columns)
    /\ pc' = "loop"
    /\ scraped' = <<>>
    /\ UNCHANGED <<inputVars, row, crawlVars, emails, crawled, error, output,
                   networkUsed, orderVars>>

\* for _, row in df.iterrows(): the call scrape_emails(row.get(...))
NextRow ==
    /\ pc = "loop"
    /\ row < Len(records)
    /\ pc' = "scrape"
    /\ website' = Cell(row + 1)
    /\ gets' = <<>>
    /\ delays' = 0
    /\ crawled' = Append(crawled, {})
    /\ UNCHANGED <<inputVars, row, base, sub, found, lastFetch, inflight,
                   emails, scraped, error, output, networkUsed, orderVars>>

\* scrape_emails returns set() for an unusable identifier; run appends "".
RejectIdentifier ==
    /\ pc = "scrape"
    /\ ~Usable(website)
    /\ emails' = {}
    /\ scraped' = Append(scraped, Format({}))
    /\ row' = row + 1
    /\ pc' = "loop"
    /\ UNCHANGED <<inputVars, crawlVars, crawled, error, output, networkUsed,
                   orderVars>>

\* The normalisation of scrape_emails, up to the start of its loop.
NormalizeIdentifier ==
    /\ pc = "scrape"
    /\ Usable(website)
    /\ LET s == Normalize(website.s)
       IN  IF UrlParseRaises(s)
           THEN /\ pc' = "failed"
                /\ error' = [type |-> "ValueError",
                             msg |-> <<"Invalid IPv6 URL">>]
                /\ website' = Str(s)
                /\ UNCHANGED <<base, sub, found>>
           ELSE /\ pc' = "get"
                /\ website' = Str(s)
                /\ base' = Base(s)
                /\ found' = NewFound(found)
                /\ sub' = 1
                /\ UNCHANGED error
    /\ UNCHANGED <<inputVars, row, lastFetch, inflight, gets, delays, emails,
                   scraped, crawled, output, networkUsed, orderVars>>

\* get_emails_from_url(target): requests.get sends the request.
IssueGet ==
    /\ pc = "get"
    /\ gets' = Append(gets, Target(base, COMMON_SUBPAGES[sub]))
    /\ inflight' = inflight + 1
    /\ networkUsed' = TRUE
    /\ pc' = "wait"
    /\ UNCHANGED <<inputVars, row, website, base, sub, found, lastFetch,
                   delays, emails, scraped, crawled, error, output, orderVars>>

\* requests.get ends; get_emails_from_url returns or raises;
\* found.update(...)
FetchReturn ==
    /\ pc = "wait"
    /\ \E o \in Outcomes :
         LET r == get_emails_from_url(gets[Len(gets)], o)
         IN  /\ lastFetch' = r
             /\ IF r.raised
                THEN /\ pc' = "failed"
                     /\ error' = [type |-> o.exc, msg |-> <<>>]
                     /\ UNCHANGED <<found, crawled>>
                ELSE /\ pc' = "sleep"
                     /\ found' = Update(found, r.result)
                     /\ crawled' =
                            [crawled EXCEPT ![row + 1] = @ \cup r.result]
                     /\ UNCHANGED error
    /\ inflight' = inflight - 1
    /\ UNCHANGED <<inputVars, row, website, base, sub, gets, delays, emails,
                   scraped, output, networkUsed, orderVars>>

\* time.sleep(POLITENESS_DELAY), then the next subpage or the end of the loop
Sleep ==
    /\ pc = "sleep"
    /\ delays' = delays + 1
    /\ lastFetch' = NoFetch
    /\ IF sub < NSub
       THEN pc' = "get" /\ sub' = sub + 1
       ELSE pc' = "return" /\ UNCHANGED sub
    /\ UNCHANGED <<inputVars, row, website, base, found, inflight, gets,
                   emails, scraped, crawled, error, output, networkUsed,
                   orderVars>>

\* return found; scraped.append(", ".join(sorted(emails)) if emails else "")
Return ==
    /\ pc = "return"
    /\ emails' = found
    /\ scraped' = Append(scraped, Format(found))
    /\ row' = row + 1
    /\ pc' = "loop"
    /\ UNCHANGED <<inputVars, crawlVars, crawled, error, output, networkUsed,
                   orderVars>>

\* df["scraped_emails"] = scraped; df.to_csv(output_csv, index=False)
Finish ==
    /\ pc = "loop"
    /\ row = Len(records)
    /\ output' = [written |-> TRUE, column |-> scraped]
    /\ pc' = "done"
    /\ UNCHANGED <<inputVars, row, crawlVars, emails, scraped, crawled, error,
                   networkUsed, orderVars>>

Next ==
    \/ ColumnMissing
    \/ ColumnPresent
    \/ NextRow
    \/ RejectIdentifier
    \/ NormalizeIdentifier
    \/ IssueGet
    \/ FetchReturn
    \/ Sleep
    \/ Return
    \/ Finish

Spec == Init /\ [][Next]_vars

(***************************************************************************)
(* The crawl of one site with its subpages visited in any order            *)
(***************************************************************************)
\* What a fetch can return.
FetchResults == {FindAll(GetText(b)) : b \in Bodies}

\* The subpages that publish addresses on the sites tried.
PagesWithEmails == {"", "contact", "staff"}

Sites ==
    {s \in [1..NSub -> FetchResults] :
        \A k \in 1..NSub : s[k] # {} => COMMON_SUBPAGES[k] \in PagesWithEmails}

InitOrder ==
    /\ pc = "order"
    /\ site \in Sites
    /\ visited = {}
    /\ found = NewFound({})
    /\ columns = {"name", "website"}
    /\ website_col = "website"
    /\ records = <<>>
    /\ row = 0
    /\ website = NaN
    /\ base = <<>>
    /\ sub = 1
    /\ lastFetch = NoFetch
    /\ inflight = 0
    /\ gets = <<>>
    /\ delays = 0
    /\ emails = {}
    /\ scraped = <<>>
    /\ crawled = <<>>
    /\ error = NoError
    /\ output = NotWritten
    /\ networkUsed = FALSE

\* found.update(result of subpage k), for any subpage not yet visited
VisitAny ==
    /\ pc = "order"
    /\ \E k \in (1..NSub) \ visited :
         /\ found' = Update(found, site[k])
         /\ visited' = visited \cup {k}
    /\ UNCHANGED <<pc, inputVars, row, website, base, sub, lastFetch,
                   inflight, gets, delays, emails, scraped, crawled, error,
                   output, networkUsed, site>>

NextOrder == Next \/ VisitAny

SpecOrder == (Init \/ InitOrder) /\ [][NextOrder]_vars

(***************************************************************************)
(* Properties                                                              *)
(***************************************************************************)
ColumnOk == website_col \in columns

\* A blank or non-string cell.
Malformed(c) == ~c.isStr \/ \A k \in 1..Len(c.s) : c.s[k] = " "

InCrawl == pc \in {"get", "wait", "sleep", "return"}

\* A call of scrape_emails has ended, by returning or by raising.
CallOver ==
    /\ ColumnOk
    /\ \/ pc \in {"return", "failed"}
       \/ pc \in {"loop", "done"} /\ row >= 1

\* The cell that call was given.
LastCell == IF pc \in {"return", "failed"} THEN records[row + 1] ELSE records[row]

\* C1: once the column check has passed, no record makes run fail: run is
\* never ended by an exception of scrape_emails or get_emails_from_url.
C1_BatchNeverAborts == ColumnOk => pc # "failed"

ExpectedTargets(b) ==
    <<b,
      b \o <<"/", "contact">>,
      b \o <<"/", "about">>,
      b \o <<"/", "team">>,
      b \o <<"/", "support">>,
      b \o <<"/", "contact-us">>,
      b \o <<"/", "about-us">>,
      b \o <<"/", "our-team">>,
      b \o <<"/", "staff">>>>

\* C2: a call of scrape_emails with a non-blank string ends having issued
\* the nine GETs base, base/contact, ..., base/staff in this order, one at a
\* time, each followed by a delay.
C2_NineTargetsInOrder ==
    /\ inflight <= 1
    /\ (CallOver /\ ~Malformed(LastCell))
          => /\ gets = ExpectedTargets(Base(website.s))
             /\ delays = Len(gets)

\* C3: for a blank or non-string cell scrape_emails returns the empty set
\* and the call issues no GET.
C3_MalformedNoRequest ==
    (CallOver /\ Malformed(LastCell))
        => /\ pc \in {"loop", "done"}
           /\ emails = {}
           /\ gets = <<>>
           /\ delays = 0

C3_Witness ==
    /\ pc = "loop"
    /\ row = 2
    /\ records = <<NaN, Str(<<" ">>)>>
    /\ ~networkUsed

LacksPrefix(c) == c.isStr /\ ~HasScheme(c.s)
HttpPrefix == <<"http:", "/", "/">>

\* C4 as stated: an identifier without the prefix is crawled like the same
\* identifier with http:// put in front of it.
C4_SameAsPrepended ==
    (CallOver /\ LacksPrefix(LastCell))
        => gets = CrawlTargets(Str(HttpPrefix \o LastCell.s))

\* C4 amended: a non-blank identifier without the prefix is crawled like
\* its stripped form with http:// put in front of it.
C4_SameAsStrippedPrepended ==
    (CallOver /\ LacksPrefix(LastCell) /\ ~Malformed(LastCell))
        => gets = CrawlTargets(Str(HttpPrefix \o Strip(LastCell.s)))

C4_Witness ==
    /\ pc = "return"
    /\ records[row + 1] = Str(<<" ", "firm.org", " ">>)
    /\ gets[NSub] = <<"http:", "/", "/", "firm.org", "/", "staff">>

\* C5: a network error of requests.get ends the call of the fetcher with
\* the empty set and no exception, and the crawl goes on to the delay and
\* the next subpage.
C5_NetworkErrorsSwallowed ==
    [][/\ (pc = "wait" /\ pc' # "wait"
             /\ lastFetch'.outcome.kind = "exception")
          => /\ ~lastFetch'.raised
             /\ lastFetch'.result = {}
             /\ pc' = "sleep"
             /\ found' = found
             /\ error' = NoError
       /\ (pc = "sleep" /\ pc' # "sleep"
             /\ lastFetch.outcome.kind = "exception")
          => IF sub < NSub
             THEN pc' = "get" /\ sub' = sub + 1
             ELSE pc' = "return"]_vars

C5_Witness ==
    /\ pc = "sleep"
    /\ lastFetch.outcome.exc = "SSLError"
    /\ sub = 1
    /\ Len(records) = 2

\* C6: a response whose status is not 200 gives the empty set, without an
\* exception and without parsing the body; a non-empty result comes from a
\* 200 response.
C6_Non200Empty ==
    /\ (lastFetch.outcome.kind = "response" /\ lastFetch.outcome.status # 200)
          => /\ lastFetch.result = {}
             /\ ~lastFetch.raised
             /\ ~lastFetch.parsed
             /\ pc = "sleep"
    /\ lastFetch.result # {} => lastFetch.outcome.status = 200

C6_Witness ==
    /\ pc = "sleep"
    /\ lastFetch.outcome = Response(301, BodyTwo)
    /\ found = {}

\* C7: during a crawl the accumulator is the union of the results fetched
\* so far, and with the subpages visited in any order the final set is the
\* union of the results of all subpages, which is the set the loop of
\* scrape_emails computes in the listed order.
C7_UnionLaw ==
    /\ InCrawl => found = crawled[row + 1]
    /\ pc = "order"
          => /\ found = UNION {site[k] : k \in visited}
             /\ visited = 1..NSub => found = ScrapeResult(site)

C7_Witness ==
    /\ pc = "order"
    /\ visited = 1..NSub
    /\ site[1] = {AddrAc}
    /\ site[NSub] = {AddrA, AddrB}
    /\ found = {AddrA, AddrB, AddrAc}

InSeq(x, s) == \E k \in 1..Len(s) : s[k] = x

\* C8: with the configured column absent run fails with an error that
\* names the column, no GET is ever issued and no output is written.
C8_MissingColumnFailsFast ==
    (~ColumnOk /\ pc # "run")
        => /\ pc = "failed"
           /\ error.type = "ValueError"
           /\ InSeq(website_col, error.msg)
           /\ ~networkUsed
           /\ gets = <<>>
           /\ ~output.written

C8_Witness ==
    /\ pc = "failed"
    /\ website_col = "url"
    /\ columns = {"name", "website"}
    /\ Len(records) = 2

SeparatorsAt(v) == {k \in 1..(Len(v) - 1) : v[k] = "," /\ v[k + 1] = " "}

\* v split at every ", ".
RECURSIVE Split(_)
Split(v) ==
    IF SeparatorsAt(v) = {} THEN <<v>>
    ELSE LET k == CHOOSE x \in SeparatorsAt(v) :
                      \A y \in SeparatorsAt(v) : x <= y
         IN  <<SubSeq(v, 1, k - 1)>> \o Split(SubSeq(v, k + 2, Len(v)))

\* v lists the addresses of set, each once, in ascending order.
ListsSorted(v, set) ==
    IF set = {} THEN v = <<>>
    ELSE LET parts == Split(v)
         IN  /\ {parts[k] : k \in 1..Len(parts)} = set
             /\ Len(parts) = Cardinality(set)
             /\ \A j, k \in 1..Len(parts) :
                    j < k => LexLess(parts[j], parts[k])

\* C9: the value of a record is the addresses its crawl returned, each
\* once, sorted, joined by ", "; it is empty when there is none and when
\* the cell is blank or not a string.
C9_ValueSortedJoined ==
    ColumnOk =>
        \A i \in 1..Len(scraped) :
            /\ ListsSorted(scraped[i], crawled[i])
            /\ Malformed(records[i]) => scraped[i] = <<>>

C9_Witness ==
    /\ Len(scraped) = 1
    /\ crawled[1] = {AddrA, AddrB, AddrAc}
    /\ scraped[1] = AddrB \o CommaSpace \o AddrA \o CommaSpace \o AddrAc

\* C10: the written column has one value per record, in order, and the
\* value of record i is the formatted set of what the fetches of record i
\* returned.
C10_PerRecordIndependent ==
    /\ ColumnOk => Len(scraped) = row
    /\ pc = "done"
          => /\ output.written
             /\ Len(output.column) = Len(records)
             /\ \A i \in 1..Len(records) :
                    output.column[i] = Format(crawled[i])

C10_Witness ==
    /\ pc = "done"
    /\ Len(records) = 2
    /\ crawled = <<{AddrA, AddrB}, {AddrAc}>>
    /\ output.column[2] = AddrAc

====
